---------------------------- MODULE Spec2Model ----------------------------
(***************************************************************************)
(* MallocSpace of mmtk-core (src/policy/mallocspace/global.rs): a          *)
(* mark-sweep space whose storage is the system allocator.                 *)
(*                                                                         *)
(* Addresses are counted in alloc-bit regions (one region = one word =     *)
(* the minimum object granularity), so the side metadata has one alloc     *)
(* bit, one mark bit and one offset-malloc bit per address.  Address 0 is  *)
(* the null address; chunk 0 is never handed out by the allocator.         *)
(* An object reference, its address and its start address coincide.        *)
(***************************************************************************)
EXTENDS Integers, FiniteSets, Sequences, TLC

(***************************************************************************)
(* Program constants, scaled down (in regions).                            *)
(***************************************************************************)
BYTES_IN_PAGE == 8
BYTES_IN_CHUNK == 16
\* bulk_load_size: 128 regions in the source, 4 here
BULK_LOAD_SIZE == 4
\* usize::max_value(), the width of active_bytes and of the chunk bounds
USIZE_MAX == 65535

(***************************************************************************)
(* Bounds of the model.                                                    *)
(***************************************************************************)
\* chunks the allocator hands out blocks in
NumChunks == 2
\* largest usable size, in regions, the allocator reports
MaxSize == 3
\* successful allocations in one behaviour
MaxAllocs == 2
\* largest distance between the raw pointer and an offset-malloc address
MaxPad == 1
\* collector workers racing in trace_object
NumWorkers == 2
\* trace_object calls per worker
MaxTraces == 2
\* mutator threads racing in alloc
NumThreads == 2
\* regions of the arena the allocator places blocks in
ArenaLen == 6

HeapStart == BYTES_IN_CHUNK
HeapEnd == BYTES_IN_CHUNK * (NumChunks + 1)
Addrs == HeapStart .. (HeapEnd - 1)
ChunkStarts == {c * BYTES_IN_CHUNK : c \in 0 .. (NumChunks + 1)}
HeapChunks == {c * BYTES_IN_CHUNK : c \in 1 .. NumChunks}
\* the arena ends two regions into the last chunk, so that it straddles a
\* chunk boundary
ArenaEnd == HeapEnd - BYTES_IN_CHUNK + 2
Arena == (ArenaEnd - ArenaLen) .. (ArenaEnd - 1)
Threads == 1 .. NumThreads
Workers == 1 .. NumWorkers

VARIABLES
    blocks,         \* the allocator's live blocks: [addr, raw, size]
    allocBit,       \* addresses whose alloc bit is set
    markBit,        \* addresses whose mark bit is set
    offsetBit,      \* addresses whose offset-malloc bit is set
    pageMark,       \* page starts whose page mark is set
    chunkMark,      \* chunk starts whose chunk mark is set
    chunkMapped,    \* chunk starts whose side metadata is mapped
    sft,            \* chunk starts the address-to-space map gives to this space
    active_bytes,
    chunk_addr_min,
    chunk_addr_max,
    markOnSide,     \* LOCAL_MARK_BIT_SPEC is MetadataSpec::OnSide
    phase,          \* "mutator", "trace" or "sweep"
    swept,          \* chunks swept in the current collection
    enqueued,       \* number of times each object was enqueued in this collection
    pending,        \* blocks returned by alloc and not yet initialized
    nAllocs,        \* successful allocations so far
    mapCalls,       \* the [addr, size] map_metadata_and_update_bound was called with
    invalidFree,    \* the allocator's free was handed a pointer it does not own
    aborted,        \* the process has ended
    last,           \* the last operation: [op, addr, pre]
    pc,             \* position of each thread or worker inside its call
    loc,            \* locals of each thread or worker
    total_work_packets,     \* debug build: sweep packets of this collection
    completed_work_packets, \* debug build: sweep packets that are done
    work_live_bytes         \* debug build: live bytes the done packets found

vars == <<blocks, allocBit, markBit, offsetBit, pageMark, chunkMark, chunkMapped,
          sft, active_bytes, chunk_addr_min, chunk_addr_max, markOnSide, phase,
          swept, enqueued, pending, nAllocs, mapCalls, invalidFree, aborted, last,
          pc, loc, total_work_packets, completed_work_packets, work_live_bytes>>

debugVars == <<total_work_packets, completed_work_packets, work_live_bytes>>
metaVars == <<allocBit, markBit, offsetBit, pageMark, chunkMark, chunkMapped, sft>>
boundVars == <<chunk_addr_min, chunk_addr_max>>
threadVars == <<pc, loc>>

(***************************************************************************)
(* conversions                                                             *)
(***************************************************************************)
chunk_align_down(a) == a - (a % BYTES_IN_CHUNK)
page_align_down(a) == a - (a % BYTES_IN_PAGE)
page_align_up(a) == ((a + BYTES_IN_PAGE - 1) \div BYTES_IN_PAGE) * BYTES_IN_PAGE

\* chunk = chunk_align_down(addr); while chunk < addr + size
ChunksOf(addr, size) ==
    {c \in ChunkStarts : c >= chunk_align_down(addr) /\ c < addr + size}

InChunk(S, c) == {a \in S : a >= c /\ a < c + BYTES_IN_CHUNK}

MinOf(S) == CHOOSE x \in S : \A y \in S : x <= y
MaxOf(S) == CHOOSE x \in S : \A y \in S : x >= y

RECURSIVE SumSizes(_)
SumSizes(S) ==
    IF S = {} THEN 0
    ELSE LET b == CHOOSE x \in S : TRUE IN b.size + SumSizes(S \ {b})

\* the blocks the allocator owns at the addresses of S
BlocksAt(S) == {b \in blocks : b.addr \in S}

WrapSub(a, b) == (a - b) % (USIZE_MAX + 1)
WrapAdd(a, b) == (a + b) % (USIZE_MAX + 1)

\* the record of an operation: its name, its argument or result, active_bytes
\* before it (before the alloc, for a free that directly follows the alloc of
\* the same address: imm), and whether the block went the offset-malloc path
Op(op, addr) ==
    [op |-> op, addr |-> addr, pre |-> active_bytes, imm |-> FALSE, off |-> FALSE]

\* the tracing queues: how often each object was enqueued
NoneEnqueued == [a \in {} |-> 0]

Enqueues(q, object) == IF object \in DOMAIN q THEN q[object] ELSE 0

enqueue(q, object) ==
    [a \in DOMAIN q \cup {object} |-> IF a = object THEN Enqueues(q, a) + 1 ELSE q[a]]

NoLoc ==
    [obj |-> 0, size |-> 0, off |-> FALSE, seen |-> FALSE, cur |-> 0, n |-> 0,
     mut |-> TRUE, eps |-> 0, live |-> 0]

(***************************************************************************)
(* The allocation adapter over the system allocator.                       *)
(***************************************************************************)
\* the blocks malloc may return next: any range of the arena that overlaps no
\* live block; an offset malloc returns an address past the raw pointer, with
\* the raw pointer stashed in the word before it
Extent(b) == b.raw .. (b.raw + b.size - 1)

MallocChoices(bl) ==
    {b \in [addr : Arena, raw : Arena, size : 1 .. MaxSize] :
        /\ b.raw + b.size <= ArenaEnd
        /\ \/ b.addr = b.raw
           \/ /\ b.addr - b.raw \in 1 .. MaxPad
              /\ b.size >= (b.addr - b.raw) + 2
        /\ \A o \in bl : Extent(o) \cap Extent(b) = {}}

IsOffsetBlock(b) == b.addr # b.raw

LiveAt(bl, a) == {b \in bl : b.addr = a}

\* get_malloc_usable_size(address, is_offset_malloc): the usable size of the raw
\* block; of a pointer the allocator does not own (or read through the wrong
\* path) it is whatever g is
get_malloc_usable_size(bl, a, off, g) ==
    LET m == {b \in LiveAt(bl, a) : IsOffsetBlock(b) = off}
    IN  IF m # {} THEN (CHOOSE b \in m : TRUE).size ELSE g

is_meta_space_mapped(mapped, addr, size) == ChunksOf(addr, size) \subseteq mapped

is_alloced_by_malloc(ab, a) == a \in ab

\* initialize_object_metadata without the set_alloc_bit
set_alloc_bit_skipped(ab, object) == ab

set_alloc_bit(ab, object) == ab \cup {object}

set_page_mark(pm, page_addr) == pm \cup {page_addr}

set_offset_malloc_bit(ob, address) == ob \cup {address}

set_mark_bit(mb, object) == mb \cup {object}

\* trace_object without the set_chunk_mark
set_chunk_mark_skipped(cm, chunk_start) == cm

set_chunk_mark(cm, chunk_start) == cm \cup {chunk_start}

\* trace_object without its assertion that the object is in the space
in_space_unasserted(a) == TRUE

in_space(a) == is_alloced_by_malloc(allocBit, a)

(***************************************************************************)
(* The space's memory as one record, for the operations that the sweep     *)
(* applies object after object.                                            *)
(***************************************************************************)
Mem == [ab |-> allocBit, mb |-> markBit, pm |-> pageMark, ob |-> offsetBit,
        bl |-> blocks, act |-> active_bytes, eps |-> 0, bad |-> FALSE]

\* free_internal without the unset_offset_malloc_bit_unsafe of the offset path
free_internal_keeps_offset_bit(st, addr, bytes, off) ==
    LET m == {b \in LiveAt(st.bl, addr) : IsOffsetBlock(b) = off}
    IN  [st EXCEPT !.bl = @ \ m,
                   !.act = WrapSub(@, bytes),
                   !.bad = @ \/ (m = {})]

\* free_internal(addr, bytes, offset_malloc_bit)
free_internal(st, addr, bytes, off) ==
    LET m == {b \in LiveAt(st.bl, addr) : IsOffsetBlock(b) = off}
    IN  [st EXCEPT !.bl = @ \ m,
                   !.ob = IF off THEN @ \ {addr} ELSE @,
                   !.act = WrapSub(@, bytes),
                   !.bad = @ \/ (m = {})]

\* the pages [empty_page_start, current_page) stepped by BYTES_IN_PAGE
PagesBetween(from, to) ==
    {page_align_down(from + k * BYTES_IN_PAGE) :
        k \in {j \in 0 .. (NumChunks + 2) * (BYTES_IN_CHUNK \div BYTES_IN_PAGE) :
                  from + j * BYTES_IN_PAGE < to}}

\* sweep_object(object, &mut empty_page_start); g is the size read for a pointer
\* the allocator does not own
sweep_object(st, object, g) ==
    LET off == object \in st.ob
        bytes == get_malloc_usable_size(st.bl, object, off, g)
    IN  IF object \notin st.mb
        THEN [free_internal(st, object, bytes, off) EXCEPT !.ab = @ \ {object}]
        ELSE [st EXCEPT
                !.pm = IF st.eps # 0
                       THEN @ \ PagesBetween(st.eps, page_align_down(object))
                       ELSE @,
                !.eps = page_align_up(object + bytes)]

\* what a read of freed memory at a yields under g
GarbageAt(g, a) == IF a \in DOMAIN g THEN g[a] ELSE 1

\* ObjectIterator over [cursor, end) with sweep_object applied to every object
\* it yields; hdr: the caller clears the mark bit of each survivor
RECURSIVE LinearSweep(_, _, _, _, _)
LinearSweep(cursor, end, st, hdr, g) ==
    IF cursor >= end THEN st
    ELSE IF cursor \in st.ab
         THEN LET bytes == get_malloc_usable_size(st.bl, cursor, cursor \in st.ob,
                                                  GarbageAt(g, cursor))
                  live == cursor \in st.mb
                  s1 == sweep_object(st, cursor, GarbageAt(g, cursor))
                  s2 == IF hdr /\ live THEN [s1 EXCEPT !.mb = @ \ {cursor}] ELSE s1
              IN  LinearSweep(cursor + bytes, end, s2, hdr, g)
         ELSE LinearSweep(cursor + 1, end, st, hdr, g)

\* the loop of sweep_chunk_mark_on_side over the bulk-load regions of a chunk
RECURSIVE BulkSweep(_, _, _, _)
BulkSweep(address, chunk_end, st, g) ==
    IF address >= chunk_end THEN st
    ELSE LET end == address + BULK_LOAD_SIZE
             alloc_128 == {a \in st.ab : a >= address /\ a < end}
             mark_128 == {a \in st.mb : a >= address /\ a < end}
             s1 == IF alloc_128 # mark_128
                   THEN LinearSweep(address, end, st, FALSE, g)
                   ELSE IF alloc_128 # {}
                        THEN [st EXCEPT !.eps = end]
                        ELSE st
         IN  BulkSweep(end, chunk_end, s1, g)

sweep_chunk_mark_on_side(st, chunk_start, g) ==
    LET s1 == BulkSweep(chunk_start, chunk_start + BYTES_IN_CHUNK, st, g)
    IN  [s1 EXCEPT !.mb = @ \ InChunk(@, chunk_start)]

sweep_chunk_mark_in_header(st, chunk_start, g) ==
    LinearSweep(chunk_start, chunk_start + BYTES_IN_CHUNK, st, TRUE, g)

sweep_chunk(st, chunk_start, g) ==
    IF markOnSide
    THEN sweep_chunk_mark_on_side(st, chunk_start, g)
    ELSE sweep_chunk_mark_in_header(st, chunk_start, g)

(***************************************************************************)
(* Initial state: MallocSpace::new                                         *)
(***************************************************************************)
InitSpace ==
    /\ blocks = {}
    /\ allocBit = {}
    /\ markBit = {}
    /\ offsetBit = {}
    /\ pageMark = {}
    /\ chunkMark = {}
    /\ chunkMapped = {}
    /\ sft = {}
    /\ active_bytes = 0
    /\ chunk_addr_min = USIZE_MAX
    /\ chunk_addr_max = 0
    /\ markOnSide \in BOOLEAN
    /\ swept = {}
    /\ enqueued = NoneEnqueued
    /\ pending = {}
    /\ nAllocs = 0
    /\ mapCalls = {}
    /\ invalidFree = FALSE
    /\ aborted = FALSE
    /\ last = Op("new", 0)
    /\ total_work_packets = 0
    /\ completed_work_packets = 0
    /\ work_live_bytes = 0

Init ==
    /\ InitSpace
    /\ phase = "mutator"
    /\ pc = [t \in Threads |-> "idle"]
    /\ loc = [t \in Threads |-> NoLoc]

(***************************************************************************)
(* Operations, each executed by one thread without interference.           *)
(***************************************************************************)
\* the bounds after both loops of map_metadata_and_update_bound have run alone
min_chunk_usize(addr) == chunk_align_down(addr)

\* the upper bound taken from the start of the block instead of its end
max_chunk_usize_of_start(addr, size) == chunk_align_down(addr)

max_chunk_usize(addr, size) == chunk_align_down(addr + size)

LowerMin(min, addr) ==
    IF min_chunk_usize(addr) < min THEN min_chunk_usize(addr) ELSE min

RaiseMax(max, addr, size) ==
    IF max_chunk_usize(addr, size) > max THEN max_chunk_usize(addr, size) ELSE max

\* alloc: the allocator returned block b
AllocBlock(b) ==
    LET address == b.addr
        actual_size == b.size
        unmapped == ~is_meta_space_mapped(chunkMapped, address, actual_size)
    IN  /\ blocks' = blocks \cup {b}
        /\ chunkMapped' = IF unmapped
                          THEN chunkMapped \cup ChunksOf(address, actual_size)
                          ELSE chunkMapped
        /\ chunk_addr_min' = IF unmapped THEN LowerMin(chunk_addr_min, address)
                             ELSE chunk_addr_min
        /\ chunk_addr_max' = IF unmapped THEN RaiseMax(chunk_addr_max, address, actual_size)
                             ELSE chunk_addr_max
        /\ sft' = IF unmapped THEN sft \cup ChunksOf(address, actual_size) ELSE sft
        /\ active_bytes' = WrapAdd(active_bytes, actual_size)
        /\ offsetBit' = IF IsOffsetBlock(b) THEN set_offset_malloc_bit(offsetBit, address)
                       ELSE offsetBit
        /\ pending' = pending \cup {address}
        /\ nAllocs' = nAllocs + 1
        /\ mapCalls' = IF unmapped
                       THEN mapCalls \cup {[addr |-> address, size |-> actual_size]}
                       ELSE mapCalls
        /\ last' = [Op("alloc", address) EXCEPT !.off = IsOffsetBlock(b)]
        /\ UNCHANGED <<allocBit, markBit, pageMark, chunkMark, markOnSide, phase, swept,
                       enqueued, invalidFree, aborted, pc, loc, debugVars>>

\* alloc: the allocator returned null
AllocNull ==
    /\ last' = Op("alloc", 0)
    /\ UNCHANGED <<blocks, metaVars, active_bytes, boundVars, markOnSide, phase, swept,
                   enqueued, pending, nAllocs, mapCalls, invalidFree, aborted, pc, loc,
                   debugVars>>

Alloc ==
    /\ phase = "mutator" /\ ~aborted
    /\ \/ /\ nAllocs < MaxAllocs
          /\ \E b \in MallocChoices(blocks) : AllocBlock(b)
       \/ /\ last.op # "alloc" \/ last.addr # 0
          /\ AllocNull

\* initialize_object_metadata, called by the mutator on the block it was given
InitializeObjectMetadata(object) ==
    /\ phase = "mutator" /\ ~aborted
    /\ object \in pending
    /\ pageMark' = set_page_mark(pageMark, page_align_down(object))
    /\ allocBit' = set_alloc_bit(allocBit, object)
    /\ pending' = pending \ {object}
    /\ last' = Op("init", object)
    /\ UNCHANGED <<blocks, markBit, offsetBit, chunkMark, chunkMapped, sft, active_bytes,
                   boundVars, markOnSide, phase, swept, enqueued, nAllocs, mapCalls, invalidFree,
                   aborted, pc, loc, debugVars>>

\* free(addr), called on a block the space handed out and still owns
Free(addr) ==
    /\ phase = "mutator" /\ ~aborted
    /\ LiveAt(blocks, addr) # {}
    /\ LET offset_malloc_bit == addr \in offsetBit
           bytes == get_malloc_usable_size(blocks, addr, offset_malloc_bit, 1)
           st == free_internal(Mem, addr, bytes, offset_malloc_bit)
       IN  /\ blocks' = st.bl
           /\ offsetBit' = st.ob
           /\ active_bytes' = st.act
           /\ invalidFree' = (invalidFree \/ st.bad)
    /\ pending' = pending \ {addr}
    /\ LET imm == last.op = "alloc" /\ last.addr = addr
       IN  last' = [Op("free", addr) EXCEPT !.imm = imm,
                                            !.pre = IF imm THEN last.pre ELSE @,
                                            !.off = addr \in offsetBit]
    /\ UNCHANGED <<allocBit, markBit, pageMark, chunkMark, chunkMapped, sft, boundVars,
                   markOnSide, phase, swept, enqueued, nAllocs, mapCalls, aborted, pc, loc,
                   debugVars>>

\* the scheduler stops the mutators (none is between alloc and
\* initialize_object_metadata) and starts tracing
StartGC ==
    /\ phase = "mutator" /\ ~aborted
    /\ pending = {}
    /\ phase' = "trace"
    /\ swept' = {}
    /\ enqueued' = NoneEnqueued
    /\ last' = Op("gc", 0)
    /\ UNCHANGED <<blocks, metaVars, active_bytes, boundVars, markOnSide, pending, nAllocs,
                   mapCalls,
                   invalidFree, aborted, pc, loc, debugVars>>

\* the references trace_object is called with: null, the objects of the space
\* and addresses of the arena that are no object of the space
TraceRefs == Arena \cup {0}

\* trace_object(queue, object) by a single worker; ret is the reference returned
TraceObject(object) ==
    /\ phase = "trace" /\ ~aborted
    /\ IF object # 0 /\ ~in_space(object)
       THEN /\ aborted' = TRUE
            /\ last' = Op("trace", object)
            /\ UNCHANGED <<markBit, chunkMark, enqueued>>
       ELSE /\ IF object # 0 /\ object \notin markBit
               THEN /\ markBit' = set_mark_bit(markBit, object)
                    /\ chunkMark' = set_chunk_mark(chunkMark, chunk_align_down(object))
                    /\ enqueued' = enqueue(enqueued, object)
               ELSE UNCHANGED <<markBit, chunkMark, enqueued>>
            /\ last' = [op |-> "trace", addr |-> object, pre |-> active_bytes,
                        imm |-> FALSE, off |-> FALSE, ret |-> object]
            /\ UNCHANGED aborted
    /\ UNCHANGED <<blocks, allocBit, offsetBit, pageMark, chunkMapped, sft, active_bytes,
                   boundVars, markOnSide, phase, swept, pending, nAllocs, mapCalls, invalidFree,
                   pc, loc, debugVars>>

\* tracing has finished; the scheduler makes a sweep packet of every mapped
\* chunk in [chunk_addr_min, chunk_addr_max]
StartSweep ==
    /\ phase = "trace" /\ ~aborted
    /\ phase' = "sweep"
    /\ last' = Op("release", 0)
    /\ UNCHANGED <<blocks, metaVars, active_bytes, boundVars, markOnSide, swept, enqueued,
                   pending, nAllocs, mapCalls, invalidFree, aborted, pc, loc, debugVars>>

ToSweep ==
    {c \in chunkMapped : c >= chunk_addr_min /\ c <= chunk_addr_max} \ swept

\* addresses in the chunk with the alloc bit set whose block the allocator no
\* longer owns: their size is read from freed memory
Stale(c) ==
    {a \in InChunk(allocBit, c) :
        \A b \in LiveAt(blocks, a) : IsOffsetBlock(b) # (a \in offsetBit)}

\* sweep_chunk(chunk_start)
SweepChunk(c) ==
    /\ phase = "sweep" /\ ~aborted
    /\ c \in ToSweep
    /\ \E g \in [Stale(c) -> 1 .. MaxSize] :
        /\ LET st == sweep_chunk(Mem, c, g)
               empty == st.eps = 0
           IN  \/ /\ blocks' = st.bl
                  /\ allocBit' = st.ab
                  /\ markBit' = st.mb
                  /\ offsetBit' = st.ob
                  /\ pageMark' = st.pm
                  /\ active_bytes' = st.act
                  \* clean_up_empty_chunk
                  /\ chunkMark' = IF empty THEN chunkMark \ {c} ELSE chunkMark
                  /\ sft' = IF empty THEN sft \ {c} ELSE sft
                  /\ invalidFree' = (invalidFree \/ st.bad)
                  /\ swept' = swept \cup {c}
                  /\ last' = Op("sweep", c)
                  /\ UNCHANGED <<chunkMapped, boundVars, markOnSide, phase, enqueued,
                                 pending, nAllocs, mapCalls, aborted, pc, loc, debugVars>>
               \* the allocator detects the invalid free and ends the process
               \/ /\ st.bad
                  /\ aborted' = TRUE
                  /\ last' = Op("abort", c)
                  /\ UNCHANGED <<blocks, metaVars, active_bytes, boundVars, markOnSide,
                                 phase, swept, enqueued, pending, nAllocs, mapCalls, invalidFree,
                                 pc, loc, debugVars>>

\* every sweep packet is done; the mutators resume
EndGC ==
    /\ phase = "sweep" /\ ~aborted
    /\ ToSweep = {}
    /\ phase' = "mutator"
    /\ last' = Op("resume", 0)
    /\ UNCHANGED <<blocks, metaVars, active_bytes, boundVars, markOnSide, swept, enqueued,
                   pending, nAllocs, mapCalls, invalidFree, aborted, pc, loc, debugVars>>

Next ==
    \/ Alloc
    \/ \E a \in Addrs : InitializeObjectMetadata(a)
    \/ \E a \in Addrs : Free(a)
    \/ StartGC
    \/ \E o \in TraceRefs : TraceObject(o)
    \/ StartSweep
    \/ \E c \in HeapChunks : SweepChunk(c)
    \/ EndGC

Spec == Init /\ [][Next]_vars

(***************************************************************************)
(* trace_object step by step, run by several collector workers at once.    *)
(***************************************************************************)
\* the heap when tracing starts: two one-region objects, allocated and
\* initialized by the mutators, at the first two addresses of the arena
TraceBlocks ==
    {[addr |-> HeapStart, raw |-> HeapStart, size |-> 1],
     [addr |-> HeapStart + 1, raw |-> HeapStart + 1, size |-> 1]}

\* the references handed to trace_object: null, the two objects and an address
\* that holds no object
TraceArgs == {0, HeapStart, HeapStart + 1, HeapStart + 2}

InitTrace ==
    /\ blocks = TraceBlocks
    /\ allocBit = {b.addr : b \in TraceBlocks}
    /\ markBit = {}
    /\ offsetBit = {}
    /\ pageMark = {page_align_down(b.addr) : b \in TraceBlocks}
    /\ chunkMark = {}
    /\ chunkMapped = {HeapStart}
    /\ sft = {HeapStart}
    /\ active_bytes = 2
    /\ chunk_addr_min = HeapStart
    /\ chunk_addr_max = HeapStart
    /\ markOnSide = TRUE
    /\ phase = "trace"
    /\ swept = {}
    /\ enqueued = NoneEnqueued
    /\ pending = {}
    /\ nAllocs = 2
    /\ mapCalls = {[addr |-> HeapStart, size |-> 1]}
    /\ invalidFree = FALSE
    /\ aborted = FALSE
    /\ last = Op("gc", 0)
    /\ total_work_packets = 0
    /\ completed_work_packets = 0
    /\ work_live_bytes = 0
    /\ pc = [w \in Workers |-> "idle"]
    /\ loc = [w \in Workers |-> NoLoc]

traceFrame == <<blocks, allocBit, offsetBit, pageMark, chunkMapped, sft, active_bytes,
                boundVars, markOnSide, phase, swept, pending, nAllocs, mapCalls,
                invalidFree, last, debugVars>>

\* a worker calls trace_object(queue, object); a null reference returns at once
TraceCall(w, object) ==
    /\ phase = "trace" /\ ~aborted
    /\ pc[w] = "idle" /\ loc[w].n < MaxTraces
    /\ loc' = [loc EXCEPT ![w] = [NoLoc EXCEPT !.obj = object, !.n = loc[w].n + 1]]
    /\ pc' = [pc EXCEPT ![w] = IF object = 0 THEN "idle" ELSE "assert"]
    /\ UNCHANGED <<traceFrame, markBit, chunkMark, enqueued, aborted>>

\* assert!(self.in_space(object))
TraceAssert(w) ==
    /\ ~aborted /\ pc[w] = "assert"
    /\ IF in_space(loc[w].obj)
       THEN /\ pc' = [pc EXCEPT ![w] = "is_marked"]
            /\ UNCHANGED aborted
       ELSE /\ aborted' = TRUE
            /\ UNCHANGED pc
    /\ UNCHANGED <<traceFrame, markBit, chunkMark, enqueued, loc>>

\* if !is_marked::<VM>(object, None)
TraceIsMarked(w) ==
    /\ ~aborted /\ pc[w] = "is_marked"
    /\ loc' = [loc EXCEPT ![w].seen = loc[w].obj \in markBit]
    /\ pc' = [pc EXCEPT ![w] = IF loc[w].obj \in markBit THEN "idle" ELSE "set_mark_bit"]
    /\ UNCHANGED <<traceFrame, markBit, chunkMark, enqueued, aborted>>

\* set_mark_bit::<VM>(object, Some(Ordering::SeqCst))
TraceSetMarkBit(w) ==
    /\ ~aborted /\ pc[w] = "set_mark_bit"
    /\ markBit' = set_mark_bit(markBit, loc[w].obj)
    /\ pc' = [pc EXCEPT ![w] = "set_chunk_mark"]
    /\ UNCHANGED <<traceFrame, chunkMark, enqueued, aborted, loc>>

\* set_chunk_mark(chunk_start)
TraceSetChunkMark(w) ==
    /\ ~aborted /\ pc[w] = "set_chunk_mark"
    /\ chunkMark' = set_chunk_mark(chunkMark, chunk_align_down(loc[w].obj))
    /\ pc' = [pc EXCEPT ![w] = "enqueue"]
    /\ UNCHANGED <<traceFrame, markBit, enqueued, aborted, loc>>

\* queue.enqueue(object), and the return
TraceEnqueue(w) ==
    /\ ~aborted /\ pc[w] = "enqueue"
    /\ enqueued' = enqueue(enqueued, loc[w].obj)
    /\ pc' = [pc EXCEPT ![w] = "idle"]
    /\ UNCHANGED <<traceFrame, markBit, chunkMark, aborted, loc>>

NextTrace ==
    \/ \E w \in Workers, o \in TraceArgs : TraceCall(w, o)
    \/ \E w \in Workers : TraceAssert(w)
    \/ \E w \in Workers : TraceIsMarked(w)
    \/ \E w \in Workers : TraceSetMarkBit(w)
    \/ \E w \in Workers : TraceSetChunkMark(w)
    \/ \E w \in Workers : TraceEnqueue(w)

SpecTrace == InitTrace /\ [][NextTrace]_vars

(***************************************************************************)
(* alloc step by step, run by several mutator threads at once.             *)
(***************************************************************************)
InitBound ==
    /\ InitSpace
    /\ markOnSide
    /\ phase = "mutator"
    /\ pc = [t \in Threads |-> "idle"]
    /\ loc = [t \in Threads |-> NoLoc]

\* a plain store in place of the compare-and-exchange
store_unconditionally(cur, expected, new) ==
    {[ok |-> TRUE, val |-> new, seen |-> cur]}

\* a compare-exchange whose failure reports the expected value back instead of
\* the value the atomic holds
compare_exchange_stale(cur, expected, new) ==
    IF cur = expected
    THEN {[ok |-> TRUE, val |-> new, seen |-> cur], [ok |-> FALSE, val |-> cur, seen |-> cur]}
    ELSE {[ok |-> FALSE, val |-> cur, seen |-> expected]}

\* compare_exchange_weak(expected, new) on an atomic holding cur: the new value
\* of the atomic, whether the exchange succeeded, and the value it reported; a
\* weak exchange may fail although cur = expected
compare_exchange_weak(cur, expected, new) ==
    IF cur = expected
    THEN {[ok |-> TRUE, val |-> new, seen |-> cur], [ok |-> FALSE, val |-> cur, seen |-> cur]}
    ELSE {[ok |-> FALSE, val |-> cur, seen |-> cur]}

allocFrame == <<allocBit, markBit, pageMark, chunkMark, markOnSide, phase, swept, enqueued,
                invalidFree, aborted, last, debugVars>>

\* alloc::<VM>(size, align, offset) returned block b
AllocMalloc(t) ==
    /\ phase = "mutator" /\ ~aborted
    /\ ~aborted /\ pc[t] = "idle" /\ nAllocs < MaxAllocs
    /\ \E b \in MallocChoices(blocks) :
        /\ blocks' = blocks \cup {b}
        /\ loc' = [loc EXCEPT ![t] = [NoLoc EXCEPT !.obj = b.addr, !.size = b.size,
                                                   !.off = IsOffsetBlock(b)]]
    /\ nAllocs' = nAllocs + 1
    /\ pc' = [pc EXCEPT ![t] = "is_mapped"]
    /\ UNCHANGED <<allocFrame, offsetBit, chunkMapped, sft, active_bytes, boundVars,
                   pending, mapCalls>>

\* if !is_meta_space_mapped(address, actual_size)
AllocIsMapped(t) ==
    /\ ~aborted /\ pc[t] = "is_mapped"
    /\ pc' = [pc EXCEPT ![t] = IF is_meta_space_mapped(chunkMapped, loc[t].obj, loc[t].size)
                               THEN "fetch_add" ELSE "map_meta_space"]
    /\ UNCHANGED <<allocFrame, blocks, offsetBit, chunkMapped, sft, active_bytes, boundVars,
                   pending, nAllocs, mapCalls, loc>>

\* map_metadata_and_update_bound: map_meta_space(&self.metadata, addr, size)
AllocMapMetaSpace(t) ==
    /\ ~aborted /\ pc[t] = "map_meta_space"
    /\ chunkMapped' = chunkMapped \cup ChunksOf(loc[t].obj, loc[t].size)
    /\ mapCalls' = mapCalls \cup {[addr |-> loc[t].obj, size |-> loc[t].size]}
    /\ pc' = [pc EXCEPT ![t] = "min_load"]
    /\ UNCHANGED <<allocFrame, blocks, offsetBit, sft, active_bytes, boundVars, pending,
                   nAllocs, loc>>

\* let mut min = self.chunk_addr_min.load(Ordering::Relaxed)
AllocMinLoad(t) ==
    /\ ~aborted /\ pc[t] = "min_load"
    /\ loc' = [loc EXCEPT ![t].cur = chunk_addr_min]
    /\ pc' = [pc EXCEPT ![t] = "min_loop"]
    /\ UNCHANGED <<allocFrame, blocks, offsetBit, chunkMapped, sft, active_bytes, boundVars,
                   pending, nAllocs, mapCalls>>

\* while min_chunk_usize < min { match compare_exchange_weak(min, min_chunk_usize) }
AllocMinLoop(t) ==
    /\ ~aborted /\ pc[t] = "min_loop"
    /\ IF min_chunk_usize(loc[t].obj) < loc[t].cur
       THEN \E r \in compare_exchange_weak(chunk_addr_min, loc[t].cur,
                                           min_chunk_usize(loc[t].obj)) :
                /\ chunk_addr_min' = r.val
                /\ loc' = [loc EXCEPT ![t].cur = IF r.ok THEN @ ELSE r.seen]
                /\ pc' = [pc EXCEPT ![t] = IF r.ok THEN "max_load" ELSE "min_loop"]
       ELSE /\ pc' = [pc EXCEPT ![t] = "max_load"]
            /\ UNCHANGED <<chunk_addr_min, loc>>
    /\ UNCHANGED <<allocFrame, blocks, offsetBit, chunkMapped, sft, active_bytes,
                   chunk_addr_max, pending, nAllocs, mapCalls>>

\* let mut max = self.chunk_addr_max.load(Ordering::Relaxed)
AllocMaxLoad(t) ==
    /\ ~aborted /\ pc[t] = "max_load"
    /\ loc' = [loc EXCEPT ![t].cur = chunk_addr_max]
    /\ pc' = [pc EXCEPT ![t] = "max_loop"]
    /\ UNCHANGED <<allocFrame, blocks, offsetBit, chunkMapped, sft, active_bytes, boundVars,
                   pending, nAllocs, mapCalls>>

\* while max_chunk_usize > max { match compare_exchange_weak(max, max_chunk_usize) }
AllocMaxLoop(t) ==
    /\ ~aborted /\ pc[t] = "max_loop"
    /\ IF max_chunk_usize(loc[t].obj, loc[t].size) > loc[t].cur
       THEN \E r \in compare_exchange_weak(chunk_addr_max, loc[t].cur,
                                           max_chunk_usize(loc[t].obj, loc[t].size)) :
                /\ chunk_addr_max' = r.val
                /\ loc' = [loc EXCEPT ![t].cur = IF r.ok THEN @ ELSE r.seen]
                /\ pc' = [pc EXCEPT ![t] = IF r.ok THEN "sft_update" ELSE "max_loop"]
       ELSE /\ pc' = [pc EXCEPT ![t] = "sft_update"]
            /\ UNCHANGED <<chunk_addr_max, loc>>
    /\ UNCHANGED <<allocFrame, blocks, offsetBit, chunkMapped, sft, active_bytes,
                   chunk_addr_min, pending, nAllocs, mapCalls>>

\* crate::mmtk::SFT_MAP.update(self, address, actual_size)
AllocSftUpdate(t) ==
    /\ ~aborted /\ pc[t] = "sft_update"
    /\ sft' = sft \cup ChunksOf(loc[t].obj, loc[t].size)
    /\ pc' = [pc EXCEPT ![t] = "fetch_add"]
    /\ UNCHANGED <<allocFrame, blocks, offsetBit, chunkMapped, active_bytes, boundVars,
                   pending, nAllocs, mapCalls, loc>>

\* self.active_bytes.fetch_add(actual_size, Ordering::SeqCst)
AllocFetchAdd(t) ==
    /\ ~aborted /\ pc[t] = "fetch_add"
    /\ active_bytes' = WrapAdd(active_bytes, loc[t].size)
    /\ pc' = [pc EXCEPT ![t] = "return"]
    /\ UNCHANGED <<allocFrame, blocks, offsetBit, chunkMapped, sft, boundVars, pending,
                   nAllocs, mapCalls, loc>>

\* if is_offset_malloc { set_offset_malloc_bit(address) }, and the return of address
AllocReturn(t) ==
    /\ ~aborted /\ pc[t] = "return"
    /\ offsetBit' = IF loc[t].off THEN set_offset_malloc_bit(offsetBit, loc[t].obj)
                    ELSE offsetBit
    /\ pending' = pending \cup {loc[t].obj}
    /\ pc' = [pc EXCEPT ![t] = "idle"]
    /\ UNCHANGED <<allocFrame, blocks, chunkMapped, sft, active_bytes, boundVars, nAllocs,
                   mapCalls, loc>>

\* the state alloc leaves alone when it returns the null address
nullFrame == <<blocks, metaVars, active_bytes, boundVars, markOnSide, phase, swept,
               enqueued, pending, nAllocs, mapCalls, invalidFree, last, debugVars>>

\* alloc with a call of the allocator after block_for_gc
AllocBlockForGC_then_malloc(t) ==
    /\ ~aborted /\ pc[t] = "block_for_gc"
    /\ blocks' = blocks \cup {[addr |-> ArenaEnd - 1, raw |-> ArenaEnd - 1, size |-> 1]}
    /\ loc' = [loc EXCEPT ![t].n = @ + 1]
    /\ pc' = [pc EXCEPT ![t] = "poll_return"]
    /\ UNCHANGED <<metaVars, active_bytes, boundVars, markOnSide, phase, swept, enqueued,
                   pending, nAllocs, mapCalls, invalidFree, last, aborted, debugVars>>

\* alloc that counts the size of a block it did not get
AllocMallocNull_counted(t) ==
    /\ phase = "mutator" /\ ~aborted
    /\ pc[t] = "idle"
    /\ active_bytes' = WrapAdd(active_bytes, 1)
    /\ loc' = [loc EXCEPT ![t] = NoLoc]
    /\ pc' = [pc EXCEPT ![t] = "null_return"]
    /\ UNCHANGED <<blocks, metaVars, boundVars, markOnSide, phase, swept, enqueued,
                   pending, nAllocs, mapCalls, invalidFree, last, aborted, debugVars>>

\* alloc: poll(false, Some(self)) returned true; assert!(is_mutator(tls))
AllocPoll(t, is_mutator) ==
    /\ phase = "mutator" /\ ~aborted
    /\ pc[t] = "idle"
    /\ loc' = [loc EXCEPT ![t] = [NoLoc EXCEPT !.mut = is_mutator]]
    /\ IF is_mutator
       THEN /\ pc' = [pc EXCEPT ![t] = "block_for_gc"]
            /\ UNCHANGED aborted
       ELSE /\ aborted' = TRUE
            /\ UNCHANGED pc
    /\ UNCHANGED nullFrame

\* VM::VMCollection::block_for_gc(VMMutatorThread(tls))
AllocBlockForGC(t) ==
    /\ ~aborted /\ pc[t] = "block_for_gc"
    /\ loc' = [loc EXCEPT ![t].n = @ + 1]
    /\ pc' = [pc EXCEPT ![t] = "poll_return"]
    /\ UNCHANGED <<nullFrame, aborted>>

\* return unsafe { Address::zero() }
AllocPollReturn(t) ==
    /\ ~aborted /\ pc[t] = "poll_return"
    /\ loc' = [loc EXCEPT ![t] = NoLoc]
    /\ pc' = [pc EXCEPT ![t] = "idle"]
    /\ UNCHANGED <<nullFrame, aborted>>

\* alloc::<VM>(size, align, offset) returned the null address
AllocMallocNull(t) ==
    /\ phase = "mutator" /\ ~aborted
    /\ pc[t] = "idle"
    /\ loc' = [loc EXCEPT ![t] = NoLoc]
    /\ pc' = [pc EXCEPT ![t] = "null_return"]
    /\ UNCHANGED <<nullFrame, aborted>>

\* if !address.is_zero() is skipped; address is returned
AllocNullReturn(t) ==
    /\ ~aborted /\ pc[t] = "null_return"
    /\ pc' = [pc EXCEPT ![t] = "idle"]
    /\ UNCHANGED <<nullFrame, aborted, loc>>

NextBound ==
    \/ \E t \in Threads, m \in BOOLEAN : AllocPoll(t, m)
    \/ \E t \in Threads : AllocBlockForGC(t)
    \/ \E t \in Threads : AllocPollReturn(t)
    \/ \E t \in Threads : AllocMallocNull(t)
    \/ \E t \in Threads : AllocNullReturn(t)
    \/ \E t \in Threads : AllocMalloc(t)
    \/ \E t \in Threads : AllocIsMapped(t)
    \/ \E t \in Threads : AllocMapMetaSpace(t)
    \/ \E t \in Threads : AllocMinLoad(t)
    \/ \E t \in Threads : AllocMinLoop(t)
    \/ \E t \in Threads : AllocMaxLoad(t)
    \/ \E t \in Threads : AllocMaxLoop(t)
    \/ \E t \in Threads : AllocSftUpdate(t)
    \/ \E t \in Threads : AllocFetchAdd(t)
    \/ \E t \in Threads : AllocReturn(t)

SpecBound == InitBound /\ [][NextBound]_vars

(***************************************************************************)
(* sweep_chunk step by step in a debug build, every chunk swept by a       *)
(* worker of its own.                                                      *)
(***************************************************************************)
\* the objects the heap may hold when the sweep starts, all of them initialized
\* and none freed by hand: one on the first page of the first chunk, two on its
\* second page, one that runs into the second chunk and two in the second chunk
SweepBlocks ==
    {[addr |-> a, raw |-> a, size |-> 1] :
        a \in {HeapStart, HeapStart + BYTES_IN_PAGE, HeapStart + BYTES_IN_PAGE + 1,
               HeapStart + BYTES_IN_CHUNK + 1,
               HeapStart + BYTES_IN_CHUNK + BYTES_IN_PAGE}}
    \cup {[addr |-> HeapStart + BYTES_IN_CHUNK - 1, raw |-> HeapStart + BYTES_IN_CHUNK - 1,
           size |-> 2]}

\* the chunk of the sweep packet worker w runs
PacketOf(w) == w * BYTES_IN_CHUNK

\* the heap and its metadata as a record, with the chunk marks and the
\* address-to-space map
Mem0 ==
    [ab |-> allocBit, mb |-> markBit, pm |-> pageMark, ob |-> offsetBit, bl |-> blocks,
     act |-> active_bytes, eps |-> 0, bad |-> FALSE, cm |-> chunkMark, sf |-> sft]

InitSweep ==
    /\ \E bl \in SUBSET SweepBlocks :
        /\ blocks = bl
        /\ allocBit = {b.addr : b \in bl}
        /\ markBit \in SUBSET {b.addr : b \in bl}
        /\ pageMark = {page_align_down(b.addr) : b \in bl}
        /\ chunkMapped = UNION {ChunksOf(b.addr, b.size) : b \in bl}
        /\ active_bytes = SumSizes(bl)
        /\ nAllocs = Cardinality(bl)
        \* the first block of every chunk was allocated with the chunk unmapped
        /\ mapCalls = {[addr |-> b.addr, size |-> b.size] :
                          b \in {x \in bl : \A o \in bl :
                                    chunk_align_down(o.addr) = chunk_align_down(x.addr)
                                        => x.addr <= o.addr}}
    /\ offsetBit = {}
    /\ chunkMark = {chunk_align_down(a) : a \in markBit}
    /\ sft = chunkMapped
    /\ chunk_addr_min = MinOf({min_chunk_usize(c.addr) : c \in mapCalls} \cup {USIZE_MAX})
    /\ chunk_addr_max = MaxOf({max_chunk_usize(c.addr, c.size) : c \in mapCalls} \cup {0})
    /\ markOnSide \in BOOLEAN
    /\ phase = "sweep"
    /\ swept = {}
    /\ enqueued = [o \in markBit |-> 1]
    /\ pending = {}
    /\ invalidFree = FALSE
    /\ aborted = FALSE
    /\ last = [op |-> "release", addr |-> 0, pre |-> active_bytes, imm |-> FALSE,
               off |-> FALSE, mem |-> Mem0]
    /\ total_work_packets = Cardinality({w \in Workers : PacketOf(w) \in ToSweep})
    /\ completed_work_packets = 0
    /\ work_live_bytes = 0
    /\ pc = [w \in Workers |->
                IF PacketOf(w) \notin ToSweep THEN "idle"
                ELSE IF markOnSide THEN "load" ELSE "header"]
    /\ loc = [w \in Workers |->
                [NoLoc EXCEPT !.obj = PacketOf(w), !.cur = PacketOf(w), !.n = PacketOf(w)]]

sweepFrame == <<chunkMapped, boundVars, markOnSide, phase, enqueued, pending, nAllocs,
                mapCalls, last, total_work_packets>>
heapVars == <<blocks, allocBit, markBit, offsetBit, pageMark, active_bytes, invalidFree>>

\* the heap as worker w sees it, with its empty_page_start
MemOf(w) == [Mem EXCEPT !.eps = loc[w].eps]

\* the writes of a sweep step
Commit(st) ==
    /\ blocks' = st.bl
    /\ allocBit' = st.ab
    /\ markBit' = st.mb
    /\ offsetBit' = st.ob
    /\ pageMark' = st.pm
    /\ active_bytes' = st.act
    /\ invalidFree' = (invalidFree \/ st.bad)

\* ObjectIterator::next: the first address in [cursor, end) with its alloc bit
\* set, or 0 when there is none
NextObject(ab, cursor, end) ==
    LET c == {a \in ab : a >= cursor /\ a < end}
    IN  IF c = {} THEN 0 ELSE MinOf(c)

\* the objects an ObjectIterator over [cursor, end) yields
RECURSIVE ObjectIterator(_, _)
ObjectIterator(cursor, end) ==
    LET object == NextObject(allocBit, cursor, end)
    IN  IF object = 0 THEN {}
        ELSE {object} \cup
             ObjectIterator(object + get_malloc_usable_size(blocks, object,
                                                            object \in offsetBit, 1), end)

\* live_bytes += bytes over the objects of V
RECURSIVE LiveBytes(_)
LiveBytes(V) ==
    IF V = {} THEN 0
    ELSE LET o == CHOOSE x \in V : TRUE
         IN  get_malloc_usable_size(blocks, o, o \in offsetBit, 1) + LiveBytes(V \ {o})

\* a write of the chunk-mark byte that also clears the bytes next to it
unset_chunk_mark_of_neighbours(cm, chunk_start) == {}

unset_chunk_mark_unsafe(cm, chunk_start) == cm \ {chunk_start}

\* where the bulk loop goes after the region that ends at end
AfterRegion(w, end) ==
    IF end < loc[w].obj + BYTES_IN_CHUNK THEN "load" ELSE "live_bytes"

\* sweep_chunk_mark_on_side: load128 of the alloc bits and the mark bits of the
\* region at address, and the branch without dead objects
SweepLoad(w) ==
    /\ ~aborted /\ pc[w] = "load"
    /\ LET address == loc[w].cur
           end == address + BULK_LOAD_SIZE
           alloc_128 == {a \in allocBit : a >= address /\ a < end}
           mark_128 == {a \in markBit : a >= address /\ a < end}
       IN  IF alloc_128 # mark_128
           THEN /\ pc' = [pc EXCEPT ![w] = "scan"]
                /\ loc' = [loc EXCEPT ![w].n = address]
           ELSE /\ pc' = [pc EXCEPT ![w] = AfterRegion(w, end)]
                /\ loc' = [loc EXCEPT ![w].cur = end,
                                      ![w].eps = IF alloc_128 # {} THEN end ELSE @]
    /\ UNCHANGED <<sweepFrame, heapVars, chunkMark, sft, swept, aborted,
                   completed_work_packets, work_live_bytes>>

\* sweep_chunk_mark_on_side: one turn of for object in bulk_load_scan
SweepScan(w) ==
    /\ ~aborted /\ pc[w] = "scan"
    /\ LET end == loc[w].cur + BULK_LOAD_SIZE
           object == NextObject(allocBit, loc[w].n, end)
           bytes == get_malloc_usable_size(blocks, object, object \in offsetBit, 1)
           st == sweep_object(MemOf(w), object, 1)
       IN  IF object = 0
           THEN /\ pc' = [pc EXCEPT ![w] = AfterRegion(w, end)]
                /\ loc' = [loc EXCEPT ![w].cur = end]
                /\ UNCHANGED heapVars
           ELSE /\ Commit(st)
                /\ loc' = [loc EXCEPT ![w].n = object + bytes, ![w].eps = st.eps]
                /\ UNCHANGED pc
    /\ UNCHANGED <<sweepFrame, chunkMark, sft, swept, aborted, completed_work_packets,
                   work_live_bytes>>

\* sweep_chunk_mark_on_side, debug build: the second pass, which adds up the
\* sizes of the objects left and asserts that each is marked
SweepLiveBytes(w) ==
    /\ ~aborted /\ pc[w] = "live_bytes"
    /\ LET left == ObjectIterator(loc[w].obj, loc[w].obj + BYTES_IN_CHUNK)
       IN  IF left \subseteq markBit
           THEN /\ loc' = [loc EXCEPT ![w].live = LiveBytes(left)]
                /\ pc' = [pc EXCEPT ![w] = "bzero"]
                /\ UNCHANGED aborted
           ELSE /\ aborted' = TRUE
                /\ UNCHANGED <<pc, loc>>
    /\ UNCHANGED <<sweepFrame, heapVars, chunkMark, sft, swept, completed_work_packets,
                   work_live_bytes>>

\* bzero_metadata(&mark_bit_spec, chunk_start, BYTES_IN_CHUNK)
SweepBzero(w) ==
    /\ ~aborted /\ pc[w] = "bzero"
    /\ markBit' = markBit \ InChunk(markBit, loc[w].obj)
    /\ pc' = [pc EXCEPT ![w] = "cleanup"]
    /\ UNCHANGED <<sweepFrame, blocks, allocBit, offsetBit, pageMark, active_bytes,
                   invalidFree, chunkMark, sft, swept, aborted, loc,
                   completed_work_packets, work_live_bytes>>

\* sweep_chunk_mark_in_header: one turn of for object in chunk_linear_scan
SweepHeader(w) ==
    /\ ~aborted /\ pc[w] = "header"
    /\ LET object == NextObject(allocBit, loc[w].n, loc[w].obj + BYTES_IN_CHUNK)
           bytes == get_malloc_usable_size(blocks, object, object \in offsetBit, 1)
           live == object \in markBit
           st == sweep_object(MemOf(w), object, 1)
       IN  IF object = 0
           THEN /\ pc' = [pc EXCEPT ![w] = "cleanup"]
                /\ UNCHANGED <<heapVars, loc>>
           ELSE /\ Commit(IF live THEN [st EXCEPT !.mb = @ \ {object}] ELSE st)
                /\ loc' = [loc EXCEPT ![w].n = object + bytes, ![w].eps = st.eps,
                                      ![w].live = IF live THEN @ + bytes ELSE @]
                /\ UNCHANGED pc
    /\ UNCHANGED <<sweepFrame, chunkMark, sft, swept, aborted, completed_work_packets,
                   work_live_bytes>>

\* if empty_page_start.is_zero() { self.clean_up_empty_chunk(chunk_start) }
SweepCleanup(w) ==
    /\ ~aborted /\ pc[w] = "cleanup"
    /\ IF loc[w].eps = 0
       THEN /\ chunkMark' = unset_chunk_mark_unsafe(chunkMark, loc[w].obj)
            /\ sft' = sft \ {loc[w].obj}
       ELSE UNCHANGED <<chunkMark, sft>>
    /\ swept' = swept \cup {loc[w].obj}
    /\ pc' = [pc EXCEPT ![w] = "done_count"]
    /\ UNCHANGED <<sweepFrame, heapVars, aborted, loc, completed_work_packets,
                   work_live_bytes>>

\* debug_sweep_chunk_done: completed_work_packets.fetch_add(1) + 1
SweepDoneCount(w) ==
    /\ ~aborted /\ pc[w] = "done_count"
    /\ completed_work_packets' = completed_work_packets + 1
    /\ loc' = [loc EXCEPT ![w].n = completed_work_packets + 1]
    /\ pc' = [pc EXCEPT ![w] = "done_add"]
    /\ UNCHANGED <<sweepFrame, heapVars, chunkMark, sft, swept, aborted, work_live_bytes>>

\* debug_sweep_chunk_done: work_live_bytes.fetch_add(live_bytes_in_the_chunk) and
\* if completed_packets == total_work_packets
SweepDoneAdd(w) ==
    /\ ~aborted /\ pc[w] = "done_add"
    /\ work_live_bytes' = WrapAdd(work_live_bytes, loc[w].live)
    /\ pc' = [pc EXCEPT ![w] = IF loc[w].n = total_work_packets THEN "done_check"
                               ELSE "done"]
    /\ UNCHANGED <<sweepFrame, heapVars, chunkMark, sft, swept, aborted, loc,
                   completed_work_packets>>

\* debug_sweep_chunk_done: debug_assert_eq!(work_live_bytes, active_bytes)
SweepDoneCheck(w) ==
    /\ ~aborted /\ pc[w] = "done_check"
    /\ loc' = [loc EXCEPT ![w].seen = TRUE]
    /\ IF work_live_bytes = active_bytes
       THEN /\ pc' = [pc EXCEPT ![w] = "done"]
            /\ UNCHANGED aborted
       ELSE /\ aborted' = TRUE
            /\ UNCHANGED pc
    /\ UNCHANGED <<sweepFrame, heapVars, chunkMark, sft, swept, completed_work_packets,
                   work_live_bytes>>

NextSweep ==
    \/ \E w \in Workers : SweepLoad(w)
    \/ \E w \in Workers : SweepScan(w)
    \/ \E w \in Workers : SweepLiveBytes(w)
    \/ \E w \in Workers : SweepBzero(w)
    \/ \E w \in Workers : SweepHeader(w)
    \/ \E w \in Workers : SweepCleanup(w)
    \/ \E w \in Workers : SweepDoneCount(w)
    \/ \E w \in Workers : SweepDoneAdd(w)
    \/ \E w \in Workers : SweepDoneCheck(w)

SpecSweep == InitSweep /\ [][NextSweep]_vars

(***************************************************************************)
(* alloc and free step by step, run by several mutator threads at once;    *)
(* the allocator may hand out again an address it has just taken back.     *)
(***************************************************************************)
freeFrame == <<allocBit, markBit, pageMark, chunkMark, chunkMapped, sft, boundVars,
               markOnSide, phase, swept, enqueued, nAllocs, mapCalls, aborted, last,
               debugVars>>

\* free(addr) is called with an address alloc returned and nobody has freed yet
FreeCall(t, addr) ==
    /\ phase = "mutator" /\ ~aborted
    /\ pc[t] = "idle"
    /\ addr \in pending
    /\ pending' = pending \ {addr}
    /\ loc' = [loc EXCEPT ![t] = [NoLoc EXCEPT !.obj = addr]]
    /\ pc' = [pc EXCEPT ![t] = "is_offset_malloc"]
    /\ UNCHANGED <<freeFrame, blocks, offsetBit, active_bytes, invalidFree>>

\* let offset_malloc_bit = is_offset_malloc(addr)
FreeIsOffsetMalloc(t) ==
    /\ ~aborted /\ pc[t] = "is_offset_malloc"
    /\ loc' = [loc EXCEPT ![t].off = loc[t].obj \in offsetBit]
    /\ pc' = [pc EXCEPT ![t] = "usable_size"]
    /\ UNCHANGED <<freeFrame, blocks, offsetBit, active_bytes, invalidFree, pending>>

\* let bytes = get_malloc_usable_size(addr, offset_malloc_bit)
FreeUsableSize(t) ==
    /\ ~aborted /\ pc[t] = "usable_size"
    /\ \E g \in 1 .. MaxSize :
        loc' = [loc EXCEPT ![t].size =
                    get_malloc_usable_size(blocks, loc[t].obj, loc[t].off, g)]
    /\ pc' = [pc EXCEPT ![t] = "release"]
    /\ UNCHANGED <<freeFrame, blocks, offsetBit, active_bytes, invalidFree, pending>>

\* free_internal: offset_free(addr) or free(ptr); releasing through the path
\* that does not match the block is undefined, the block may or may not go
FreeRelease(t) ==
    /\ ~aborted /\ pc[t] = "release"
    /\ LET here == LiveAt(blocks, loc[t].obj)
           m == {b \in here : IsOffsetBlock(b) = loc[t].off}
       IN  IF m # {}
           THEN blocks' = blocks \ m /\ UNCHANGED invalidFree
           ELSE /\ blocks' \in {blocks, blocks \ here}
                /\ invalidFree' = TRUE
    /\ pc' = [pc EXCEPT ![t] = IF loc[t].off THEN "unset_offset_bit" ELSE "fetch_sub"]
    /\ UNCHANGED <<freeFrame, offsetBit, active_bytes, pending, loc>>

\* free_internal: unsafe { unset_offset_malloc_bit_unsafe(addr) }
FreeUnsetOffsetBit(t) ==
    /\ ~aborted /\ pc[t] = "unset_offset_bit"
    /\ offsetBit' = offsetBit \ {loc[t].obj}
    /\ pc' = [pc EXCEPT ![t] = "fetch_sub"]
    /\ UNCHANGED <<freeFrame, blocks, active_bytes, invalidFree, pending, loc>>

\* free_internal: self.active_bytes.fetch_sub(bytes, Ordering::SeqCst)
FreeFetchSub(t) ==
    /\ ~aborted /\ pc[t] = "fetch_sub"
    /\ active_bytes' = WrapSub(active_bytes, loc[t].size)
    /\ pc' = [pc EXCEPT ![t] = "idle"]
    /\ UNCHANGED <<freeFrame, blocks, offsetBit, invalidFree, pending, loc>>

NextFree ==
    \/ \E t \in Threads : AllocMalloc(t)
    \/ \E t \in Threads : AllocIsMapped(t)
    \/ \E t \in Threads : AllocMapMetaSpace(t)
    \/ \E t \in Threads : AllocMinLoad(t)
    \/ \E t \in Threads : AllocMinLoop(t)
    \/ \E t \in Threads : AllocMaxLoad(t)
    \/ \E t \in Threads : AllocMaxLoop(t)
    \/ \E t \in Threads : AllocSftUpdate(t)
    \/ \E t \in Threads : AllocFetchAdd(t)
    \/ \E t \in Threads : AllocReturn(t)
    \/ \E t \in Threads, addr \in Addrs : FreeCall(t, addr)
    \/ \E t \in Threads : FreeIsOffsetMalloc(t)
    \/ \E t \in Threads : FreeUsableSize(t)
    \/ \E t \in Threads : FreeRelease(t)
    \/ \E t \in Threads : FreeUnsetOffsetBit(t)
    \/ \E t \in Threads : FreeFetchSub(t)

SpecFree == InitBound /\ [][NextFree]_vars

(***************************************************************************)
(* alloc step by step under a fair scheduler: every thread inside alloc    *)
(* eventually takes its next step, and a step of a loop that leaves the    *)
(* thread where it was (a spurious failure of compare_exchange_weak on an  *)
(* unchanged bound) is not repeated for ever.                              *)
(***************************************************************************)
\* the next step of thread t once it is inside alloc
AllocStep(t) ==
    \/ AllocIsMapped(t)
    \/ AllocMapMetaSpace(t)
    \/ AllocMinLoad(t)
    \/ AllocMinLoop(t)
    \/ AllocMaxLoad(t)
    \/ AllocMaxLoop(t)
    \/ AllocSftUpdate(t)
    \/ AllocFetchAdd(t)
    \/ AllocReturn(t)

NextLoops ==
    \/ \E t \in Threads : AllocMalloc(t)
    \/ \E t \in Threads : AllocIsMapped(t)
    \/ \E t \in Threads : AllocMapMetaSpace(t)
    \/ \E t \in Threads : AllocMinLoad(t)
    \/ \E t \in Threads : AllocMinLoop(t)
    \/ \E t \in Threads : AllocMaxLoad(t)
    \/ \E t \in Threads : AllocMaxLoop(t)
    \/ \E t \in Threads : AllocSftUpdate(t)
    \/ \E t \in Threads : AllocFetchAdd(t)
    \/ \E t \in Threads : AllocReturn(t)

SpecLoops ==
    /\ InitBound
    /\ [][NextLoops]_vars
    /\ \A t \in Threads : WF_vars(AllocStep(t))

(***************************************************************************)
(* sweep_chunk on heaps that hold an object with an offset adjustment,     *)
(* under either place of the mark bit.                                     *)
(***************************************************************************)
\* the objects the heap may hold when the sweep starts, all of them initialized
\* and none freed by hand: in the first bulk-load region of the first chunk an
\* object and an offset-malloc object whose raw block ends in the second
\* region, in the second region an object right behind it, one object on the
\* second page and one in the second chunk
ModeBlocks ==
    {[addr |-> a, raw |-> a, size |-> 1] :
        a \in {HeapStart, HeapStart + BULK_LOAD_SIZE + 1, HeapStart + BYTES_IN_PAGE,
               HeapStart + BYTES_IN_CHUNK + 1}}
    \cup {[addr |-> HeapStart + BULK_LOAD_SIZE - 1, raw |-> HeapStart + BULK_LOAD_SIZE - 2,
           size |-> 3]}

InitModes ==
    /\ \E bl \in SUBSET ModeBlocks :
        /\ blocks = bl
        /\ allocBit = {b.addr : b \in bl}
        /\ markBit \in SUBSET {b.addr : b \in bl}
        /\ offsetBit = {b.addr : b \in {x \in bl : IsOffsetBlock(x)}}
        /\ pageMark = {page_align_down(b.addr) : b \in bl}
        /\ chunkMapped = UNION {ChunksOf(b.addr, b.size) : b \in bl}
        /\ active_bytes = SumSizes(bl)
        /\ nAllocs = Cardinality(bl)
        /\ mapCalls = {[addr |-> b.addr, size |-> b.size] :
                          b \in {x \in bl : \A o \in bl :
                                    chunk_align_down(o.addr) = chunk_align_down(x.addr)
                                        => x.addr <= o.addr}}
    /\ chunkMark = {chunk_align_down(a) : a \in markBit}
    /\ sft = chunkMapped
    /\ chunk_addr_min = MinOf({min_chunk_usize(c.addr) : c \in mapCalls} \cup {USIZE_MAX})
    /\ chunk_addr_max = MaxOf({max_chunk_usize(c.addr, c.size) : c \in mapCalls} \cup {0})
    /\ markOnSide \in BOOLEAN
    /\ phase = "sweep"
    /\ swept = {}
    /\ enqueued = [o \in markBit |-> 1]
    /\ pending = {}
    /\ invalidFree = FALSE
    /\ aborted = FALSE
    /\ last = Op("release", 0)
    /\ total_work_packets = 0
    /\ completed_work_packets = 0
    /\ work_live_bytes = 0
    /\ pc = [w \in Workers |-> "idle"]
    /\ loc = [w \in Workers |-> NoLoc]

NextModes == \E c \in HeapChunks : SweepChunk(c)

SpecModes == InitModes /\ [][NextModes]_vars

(***************************************************************************)
(* Properties                                                              *)
(***************************************************************************)
\* C2: in every reachable state every object whose mark bit is set has its
\* alloc bit set
C2_MarkedIsAlloced == \A o \in Addrs : o \in markBit => is_alloced_by_malloc(allocBit, o)

\* a sweep of one chunk has run while an object is marked
C2_Witness == last.op = "sweep" /\ markBit # {} /\ markBit \subseteq allocBit

\* C3: after sweep_chunk(C) has returned, no address of C with the alloc bit set
\* has the mark bit set
C3_SweptChunkUnmarked ==
    last.op = "sweep" => InChunk(allocBit \cap markBit, last.addr) = {}

\* C4: sweep_chunk(C) on a chunk whose alloc bits all denote blocks the space
\* owns leaves the alloc bit exactly on the objects that were marked, hands
\* every unmarked one to the allocator's free once and takes exactly their
\* usable sizes off active_bytes
C4_SweepFreesExactlyTheDead ==
    [][\A c \in HeapChunks :
          (phase = "sweep" /\ c \in ToSweep /\ Stale(c) = {}
              /\ last'.op = "sweep" /\ last'.addr = c)
          => LET objs == InChunk(allocBit, c)
                 dead == BlocksAt(objs \ markBit)
             IN  /\ InChunk(allocBit', c) = objs \cap markBit
                 /\ blocks' = blocks \ dead
                 /\ invalidFree' = invalidFree
                 /\ active_bytes' = WrapSub(active_bytes, SumSizes(dead))]_vars

\* C5: when every chunk of [chunk_addr_min, chunk_addr_max] has been swept, the
\* usable sizes of the objects whose alloc bit is set add up to active_bytes
C5_SweptBytesMatch ==
    (phase = "sweep" /\ ToSweep = {} /\ last.op = "sweep")
        => SumSizes(BlocksAt(allocBit)) = active_bytes

\* C6: a free that directly follows the alloc that returned its address leaves
\* active_bytes as it was before that alloc, and the offset-malloc bit clear
C6_AllocFreeRestores ==
    (last.op = "free" /\ last.imm)
        => active_bytes = last.pre /\ last.addr \notin offsetBit

\* an offset-malloc block was freed right after its alloc, next to another block
C6_Witness == last.op = "free" /\ last.imm /\ last.off /\ last.pre > 0

C8_AllocBitIsOwned == \A a \in Addrs : in_space(a) => LiveAt(blocks, a) # {}

\* C1: when the workers have all returned from trace_object, every object that
\* was traced has its mark bit set and was enqueued exactly once
C1_ExactlyOneEnqueue ==
    (\A w \in Workers : pc[w] = "idle")
        => \A w \in Workers :
              (loc[w].obj # 0 /\ ~aborted)
                  => loc[w].obj \in markBit /\ Enqueues(enqueued, loc[w].obj) = 1

\* the blocks alloc has returned
Returned == {b \in blocks : b.addr \in pending}

\* a thread is inside map_metadata_and_update_bound
InBoundUpdate(t) == pc[t] \in {"map_meta_space", "min_load", "min_loop", "max_load", "max_loop"}

\* C9 as stated: at every moment, for every block [A, A+S) alloc has returned,
\* chunk_addr_min <= chunk_align_down(A) and chunk_addr_max >= chunk_align_down(A+S)
C9_BoundsCoverReturned ==
    \A b \in Returned :
        /\ chunk_addr_min <= chunk_align_down(b.addr)
        /\ chunk_addr_max >= chunk_align_down(b.addr + b.size)

\* C9 amended: whenever no thread is inside map_metadata_and_update_bound, for
\* every block alloc has returned chunk_addr_min <= chunk_align_down(A) and
\* chunk_addr_max >= chunk_align_down(A+S-1), the chunk of the block's last byte
C9_BoundsCoverWhenQuiet ==
    (\A t \in Threads : ~InBoundUpdate(t))
        => \A b \in Returned :
              /\ chunk_addr_min <= chunk_align_down(b.addr)
              /\ chunk_addr_max >= chunk_align_down(b.addr + b.size - 1)

\* two threads have returned blocks of different chunks, one of them without
\* updating the bounds itself
C9_Witness ==
    /\ \A t \in Threads : pc[t] = "idle"
    /\ Cardinality(mapCalls) < Cardinality(Returned)
    /\ \E a, b \in Returned : chunk_align_down(a.addr) # chunk_align_down(b.addr)

\* C10: chunk_addr_min never increases and chunk_addr_max never decreases, and
\* when no call of map_metadata_and_update_bound is in progress they are the
\* least chunk_align_down(addr) and the greatest chunk_align_down(addr+size)
\* over the calls made
C10_BoundsMonotoneAndExact ==
    /\ [][chunk_addr_min' <= chunk_addr_min /\ chunk_addr_max' >= chunk_addr_max]_vars
    /\ []((\A t \in Threads : ~InBoundUpdate(t))
            => /\ chunk_addr_min
                    = MinOf({min_chunk_usize(c.addr) : c \in mapCalls} \cup {USIZE_MAX})
               /\ chunk_addr_max
                    = MaxOf({max_chunk_usize(c.addr, c.size) : c \in mapCalls} \cup {0}))

\* two calls, for blocks of different chunks, have run at the same time and finished
C10_Witness ==
    /\ \A t \in Threads : pc[t] = "idle"
    /\ \E a, b \in mapCalls :
          /\ min_chunk_usize(a.addr) < min_chunk_usize(b.addr)
          /\ chunk_addr_min = min_chunk_usize(a.addr)
          /\ chunk_addr_max = max_chunk_usize(b.addr, b.size)
          /\ max_chunk_usize(a.addr, a.size) < chunk_addr_max

\* a step of thread t on the path of alloc that returns the null address after
\* the poll
PollStep(t) ==
    /\ pc'[t] # pc[t]
    /\ {pc[t], pc'[t]} \cap {"block_for_gc", "poll_return"} # {}

\* C11: when poll returns true in alloc called by a mutator, alloc blocks the
\* mutator for GC once, returns the null address, does not call the allocator
\* and leaves active_bytes, the chunk bounds, the address-to-space map and the
\* side metadata unchanged; called by another thread it ends in the fatal
\* assertion, with the same state left unchanged
C11_PollReturnsNull ==
    [][/\ \A t \in Threads :
            PollStep(t)
                => /\ UNCHANGED <<blocks, active_bytes, boundVars, metaVars>>
                   /\ loc'[t].mut /\ ~aborted'
                   /\ pc'[t] = "poll_return" => loc'[t].n = 1
                   /\ pc[t] = "poll_return" => loc'[t].obj = 0 /\ pc'[t] = "idle"
       /\ (aborted' /\ ~aborted)
            => /\ UNCHANGED <<blocks, active_bytes, boundVars, metaVars, pc>>
               /\ \E t \in Threads : ~loc'[t].mut]_vars

\* a mutator is about to return null from a poll while the other thread is in
\* the middle of an allocation
C11_Witness ==
    \E t, u \in Threads :
        /\ pc[t] = "poll_return" /\ loc[t].n = 1
        /\ pc[u] = "fetch_add"
        /\ blocks # {}

\* a step of thread t on the path of alloc on which the allocator returned null
NullStep(t) ==
    /\ pc'[t] # pc[t]
    /\ "null_return" \in {pc[t], pc'[t]}

\* C12: when the allocator returns null, alloc returns the null address and
\* leaves active_bytes, the chunk bounds, the address-to-space map, the
\* offset-malloc bits and every other side-metadata bit unchanged
C12_NullLeavesNoTrace ==
    [][\A t \in Threads :
          NullStep(t)
              => /\ UNCHANGED <<blocks, active_bytes, boundVars, metaVars>>
                 /\ loc'[t].obj = 0
                 /\ pc[t] = "null_return" => pc'[t] = "idle"]_vars

\* the allocator has returned null to one thread after a block to another
C12_Witness ==
    \E t \in Threads :
        /\ pc[t] = "null_return"
        /\ active_bytes > 0 /\ offsetBit # {}

\* C13: every chunk that overlaps a block alloc has returned is given to this
\* space by the address-to-space map
C13_SftNamesReturned ==
    \A b \in Returned : ChunksOf(b.addr, b.size) \subseteq sft

\* C14: sweep_chunk(C) clears the chunk mark of C and the address-to-space map
\* entry of C if and only if no object of C had both its alloc bit and its mark
\* bit set when the sweep began; a chunk with a survivor keeps both
C14_TeardownIffEmpty ==
    [][\A c \in HeapChunks :
          (phase = "sweep" /\ c \in ToSweep /\ last'.op = "sweep" /\ last'.addr = c)
              => IF InChunk(allocBit \cap markBit, c) = {}
                 THEN c \notin chunkMark' /\ c \notin sft'
                 ELSE chunkMark' = chunkMark /\ sft' = sft]_vars

\* sweep_chunk(c) applied to the heap m by a single worker, with the teardown
\* of the chunk when it is empty
SweepThenCleanup(m, c) ==
    LET st == sweep_chunk([m EXCEPT !.eps = 0], c, << >>)
    IN  IF st.eps = 0 THEN [st EXCEPT !.cm = @ \ {c}, !.sf = @ \ {c}] ELSE st

\* the chunks of cs swept one after another, from the lowest and from the highest
RECURSIVE SweepUp(_, _)
SweepUp(m, cs) ==
    IF cs = {} THEN m
    ELSE SweepUp(SweepThenCleanup(m, MinOf(cs)), cs \ {MinOf(cs)})

RECURSIVE SweepDown(_, _)
SweepDown(m, cs) ==
    IF cs = {} THEN m
    ELSE SweepDown(SweepThenCleanup(m, MaxOf(cs)), cs \ {MaxOf(cs)})

SameHeap(m) ==
    /\ allocBit = m.ab /\ markBit = m.mb /\ pageMark = m.pm /\ offsetBit = m.ob
    /\ chunkMark = m.cm /\ sft = m.sf
    /\ blocks = m.bl /\ active_bytes = m.act

\* every worker has left sweep_chunk_mark_on_side / _in_header proper
SweepersDone ==
    \A w \in Workers :
        pc[w] \notin {"load", "scan", "live_bytes", "bzero", "header", "cleanup"}

\* C15: when disjoint chunks have been swept concurrently, each by one worker,
\* the alloc bits, mark bits, page marks, chunk marks, address-to-space
\* entries, freed blocks and active_bytes are those of sweeping the same chunks
\* one after another, in either order
C15_ConcurrentSweepIsSequential ==
    SweepersDone
        => /\ SameHeap(SweepUp(last.mem, swept))
           /\ SameHeap(SweepDown(last.mem, swept))

\* two packets are done, each has freed an object and kept one
C15_Witness ==
    /\ SweepersDone
    /\ \A c \in HeapChunks :
          /\ c \in swept
          /\ InChunk(allocBit, c) # {}
          /\ InChunk(allocBit, c) # InChunk(last.mem.ab, c)

\* C17: in a parallel sweep one packet evaluates the final equality check, and
\* when it does work_live_bytes holds the live bytes of all the chunks
C17_FinalCheckSeesAll ==
    /\ Cardinality({w \in Workers : pc[w] = "done_check" \/ loc[w].seen}) <= 1
    /\ \A w \in Workers :
          pc[w] = "done_check" => work_live_bytes = LiveBytes(allocBit)

\* the pages a block lies on
PagesOf(b) == {page_align_down(a) : a \in b.addr .. (b.addr + b.size - 1)}

\* C18: the sweep clears no page mark of a page on which an object that was
\* marked when the sweep began starts or lies
C18_SurvivorPagesKeepMark ==
    \A b \in last.mem.bl :
        b.addr \in last.mem.mb
            => \A p \in PagesOf(b) : p \in last.mem.pm => p \in pageMark

\* no thread is inside alloc or free
Quiescent == \A t \in Threads : pc[t] = "idle"

\* a fetch_sub of free_internal that takes active_bytes below zero
Underflows(t) ==
    /\ pc[t] = "fetch_sub" /\ pc'[t] = "idle"
    /\ loc[t].size > active_bytes

\* C16: whenever every concurrent alloc and free has run to completion, each
\* free applied to a distinct address that alloc returned and nobody freed yet,
\* active_bytes is the sum of the usable sizes of the blocks allocated and not
\* freed, and no fetch_sub on the way takes active_bytes below zero
C16_ActiveBytesIsLiveSum ==
    /\ [](Quiescent => active_bytes = SumSizes(Returned))
    /\ [][\A t \in Threads : ~Underflows(t)]_vars

\* C20: whenever a block at address A alloc has returned may be freed, the
\* offset-malloc bit of A is set if and only if the block living at A was
\* returned with an offset adjustment
C20_OffsetBitMatchesBlock ==
    \A b \in Returned : (b.addr \in offsetBit) <=> IsOffsetBlock(b)

\* the state trace_object never writes
traceUntouched == <<blocks, allocBit, offsetBit, pageMark, chunkMapped, sft, active_bytes,
                    boundVars, markOnSide, phase, swept, pending, invalidFree>>

\* a step of trace_object in the sequential lifecycle
TraceStep == phase = "trace" /\ phase' = "trace" /\ last'.op = "trace"

\* C19: trace_object executed by a single worker returns the reference it was
\* given; on null it changes nothing; on an object of the space with the mark
\* bit clear it sets the mark bit and the chunk mark of the object's chunk and
\* enqueues the object once; on a marked object it enqueues nothing and changes
\* no state; on a non-null object with the alloc bit clear it ends in a fatal
\* assertion without setting a mark bit or enqueuing
C19_TraceObjectSingleWorker ==
    [][TraceStep =>
        LET object == last'.addr
            quiet == UNCHANGED <<markBit, chunkMark, enqueued>>
        IN  /\ UNCHANGED traceUntouched
            /\ object = 0 => quiet /\ ~aborted' /\ last'.ret = 0
            /\ object # 0 /\ object \notin allocBit => quiet /\ aborted'
            /\ object # 0 /\ object \in allocBit /\ object \in markBit =>
                    quiet /\ ~aborted' /\ last'.ret = object
            /\ object # 0 /\ object \in allocBit /\ object \notin markBit =>
                    /\ markBit' = markBit \cup {object}
                    /\ chunkMark' = chunkMark \cup {chunk_align_down(object)}
                    /\ enqueued' = enqueue(enqueued, object)
                    /\ Enqueues(enqueued', object) = Enqueues(enqueued, object) + 1
                    /\ ~aborted' /\ last'.ret = object]_vars

\* trace_object has marked and enqueued the object it was given
C19_Witness ==
    /\ last.op = "trace" /\ ~aborted
    /\ last.addr \in markBit /\ last.addr \in allocBit
    /\ chunk_align_down(last.addr) \in chunkMark
    /\ Enqueues(enqueued, last.addr) = 1

\* thread t leaves the loop on chunk_addr_min, and why
LeavesMinLoop(t) == pc[t] = "min_loop" /\ pc'[t] = "max_load"

MinCovered(t) == ~(min_chunk_usize(loc[t].obj) < loc[t].cur)

MinExchanged(t) ==
    /\ chunk_addr_min = loc[t].cur
    /\ chunk_addr_min' = min_chunk_usize(loc[t].obj)

\* thread t leaves the loop on chunk_addr_max, and why
LeavesMaxLoop(t) == pc[t] = "max_loop" /\ pc'[t] = "sft_update"

MaxCovered(t) == ~(max_chunk_usize(loc[t].obj, loc[t].size) > loc[t].cur)

MaxExchanged(t) ==
    /\ chunk_addr_max = loc[t].cur
    /\ chunk_addr_max' = max_chunk_usize(loc[t].obj, loc[t].size)

\* C21: under a fair scheduler, with finitely many callers and only finitely
\* many spurious failures of compare_exchange_weak, every caller inside a loop
\* of map_metadata_and_update_bound eventually leaves it, and it leaves it
\* because the bound it observed covers its candidate or because its exchange
\* succeeded
C21_LoopsTerminate ==
    /\ \A t \in Threads : (pc[t] = "min_loop") ~> (pc[t] = "max_load")
    /\ \A t \in Threads : (pc[t] = "max_loop") ~> (pc[t] = "sft_update")
    /\ [][\A t \in Threads :
            /\ LeavesMinLoop(t) => MinCovered(t) \/ MinExchanged(t)
            /\ LeavesMaxLoop(t) => MaxCovered(t) \/ MaxExchanged(t)]_vars

\* a caller is inside a loop with an observed bound that another caller has
\* replaced since, so its next exchange fails
C21_Witness ==
    \E t \in Threads :
        \/ /\ pc[t] = "min_loop"
           /\ min_chunk_usize(loc[t].obj) < loc[t].cur
           /\ loc[t].cur # chunk_addr_min
        \/ /\ pc[t] = "max_loop"
           /\ max_chunk_usize(loc[t].obj, loc[t].size) > loc[t].cur
           /\ loc[t].cur # chunk_addr_max

\* a step of sweep_chunk(c) in the sequential lifecycle
SweepStep(c) == phase = "sweep" /\ c \in ToSweep /\ last'.op = "sweep" /\ last'.addr = c

\* the blocks of chunk c whose mark bit is set when the sweep of c begins
MarkedBlocks(c) == BlocksAt(InChunk(allocBit \cap markBit, c))

\* C22: over any sequence of alloc, initialize_object_metadata, free,
\* trace_object and sweep_chunk no block is passed to the allocator's free or
\* offset_free more than once per allocation (every address passed is a block
\* the allocator owns at that moment), and a block whose mark bit is set when a
\* sweep begins is not freed by that sweep
C22_FreedOnceAndNeverMarked ==
    /\ [](~invalidFree)
    /\ [][\A c \in HeapChunks :
            SweepStep(c) => MarkedBlocks(c) \subseteq blocks']_vars

\* what the sweep of the other variant makes of the chunk: the header-mark sweep
\* where the space marks on the side, the side-mark sweep where it marks in the
\* header
OtherSweep(c) ==
    IF markOnSide
    THEN sweep_chunk_mark_in_header(Mem, c, NoneEnqueued)
    ELSE sweep_chunk_mark_on_side(Mem, c, NoneEnqueued)

\* C23: for the same contents of the chunk when the sweep begins, the side-mark
\* sweep and the header-mark sweep end in states that agree on the alloc bits,
\* the mark bits, the freed blocks, active_bytes, the chunk mark and the
\* address-to-space entry of the chunk
C23_SweepVariantsAgree ==
    [][\A c \in HeapChunks :
          (SweepStep(c) /\ Stale(c) = {})
          => LET o == OtherSweep(c)
             IN  /\ allocBit' = o.ab
                 /\ markBit' = o.mb
                 /\ blocks' = o.bl
                 /\ active_bytes' = o.act
                 /\ (c \in chunkMark') = (c \in chunkMark /\ o.eps # 0)
                 /\ (c \in sft') = (c \in sft /\ o.eps # 0)]_vars

=============================================================================
